---- MODULE Spec2Model ----
(***************************************************************************)
(* Model of the Privarion hook registry                                    *)
(* (Sources/PrivarionHook/privarion_hook.c and include/privarion_hook.h).  *)
(*                                                                         *)
(* The registry is a mutex-protected singly linked list of PHookEntry,     *)
(* a flag g_hook_system_initialized and a counter g_next_hook_id.  Callers *)
(* hold PHookHandle structs of their own; the registry writes a handle in  *)
(* ph_install_hook and only reads it afterwards.                           *)
(*                                                                         *)
(* Every access of an operation to the registry lies between its          *)
(* pthread_mutex_lock and its pthread_mutex_unlock, and the checks it      *)
(* makes before the lock read only its arguments and the caller's own      *)
(* handle.  Spec therefore takes one step per call, in the order in which  *)
(* the calls of all threads obtain the mutex.  SpecRace models the mutex   *)
(* itself: threads wait for it, hold it and release it.                    *)
(* strncpy and strcmp are modelled on strings, with the real field size of *)
(* 256 bytes.                                                              *)
(***************************************************************************)
EXTENDS Integers, Sequences, FiniteSets, TLC

(***************************************************************************)
(* Bounds of the model.                                                    *)
(***************************************************************************)
NumThreads == 2
MaxHooks == 2
MaxId == 3
MaxCap == 5

Threads == 1..NumThreads

\* the PHookHandle objects the callers own and pass by address
Slots == {1, 2}

(***************************************************************************)
(* Program constants.                                                      *)
(***************************************************************************)
PH_SUCCESS == 0
PH_ERROR_INVALID_PARAM == -1
PH_ERROR_FUNCTION_NOT_FOUND == -2
PH_ERROR_ALREADY_HOOKED == -3
PH_ERROR_NOT_HOOKED == -4
PH_ERROR_MEMORY_ERROR == -5
PH_ERROR_UNSUPPORTED_PLATFORM == -7

\* sizeof(function_name) in PHookEntry and PHookHandle
FieldSize == 256

(***************************************************************************)
(* C strings are strings, without the terminator.  NullName stands for the *)
(* null pointer; it is not one of the names callers pass as a string.      *)
(***************************************************************************)
NullName == "<NULL>"
\* "", which dlsym does not resolve
EmptyName == ""
\* an exported short symbol
GetUid == "getuid"
\* an exported symbol of FieldSize characters (16 * 16 times "a"), one more
\* than the name field holds
A16 == "aaaaaaaaaaaaaaaa"
A64 == A16 \o A16 \o A16 \o A16
LongName == A64 \o A64 \o A64 \o A64

\* further exported symbols: the other functions with a convenience
\* installer, and a second symbol of FieldSize characters that differs from
\* LongName in its last character only
GetGid == "getgid"
GetHostName == "gethostname"
UName == "uname"
A15 == "aaaaaaaaaaaaaaa"
LongName2 == A64 \o A64 \o A64 \o A16 \o A16 \o A16 \o A15 \o "b"

\* the names callers install
Names == {GetUid, EmptyName, LongName}

\* the function pointers callers pass as replacement (0 is NULL)
Replacements == {2001, 2002}

Min(a, b) == IF a < b THEN a ELSE b

\* strncpy(dst, src, size - 1); dst[size - 1] = '\0'
strncpy(src, size) == SubSeq(src, 1, Min(Len(src), size - 1))

\* the names callers ask about: those they install and their stored forms
NameUniverse == Names \cup {strncpy(n, FieldSize) : n \in Names}

\* strcmp(a, b) == 0
strcmp0(a, b) == a = b

\* dlsym(RTLD_DEFAULT, name): the address of an exported symbol, or NULL (0)
dlsym(name) ==
    CASE name = GetUid -> 1001
      [] name = LongName -> 1002
      [] name = GetGid -> 1003
      [] name = GetHostName -> 1004
      [] name = UName -> 1005
      [] name = LongName2 -> 1006
      [] OTHER -> 0

VARIABLES
    platform_supported,        \* ph_is_platform_supported(): fixed by the build
    g_hook_system_initialized,
    g_hook_list_head,          \* the linked list, head first
    g_next_hook_id,
    g_hook_mutex,              \* 0 when free, else the thread that holds it
    handle,                    \* the callers' PHookHandle structs
    ret,                       \* the call that returned last and its value
    pc, call, race,            \* race scenario: each thread's position, its
                               \* call and what the call returned
    g_config_data,             \* the spoof configuration store
    local,                     \* configuration scenario: each thread's
                               \* config_data argument, position and buffer
    h_req,                     \* history: the name each entry was installed under
    h_consumed,                \* history: slot holds a handle a remove succeeded on
    h_issued,                  \* history: ids returned since the last reset
    h_issued_ever              \* history: ids returned since process start

vars == <<platform_supported, g_hook_system_initialized, g_hook_list_head,
          g_next_hook_id, g_hook_mutex, handle, ret, pc, call, race,
          g_config_data, local, h_req, h_consumed, h_issued, h_issued_ever>>

registry == <<g_hook_system_initialized, g_hook_list_head, g_next_hook_id>>
history == <<h_req, h_consumed, h_issued, h_issued_ever>>
threads == <<g_hook_mutex, pc, call, race, local>>

\* name is the name ph_install_hook took into its critical section, h the
\* slot of the handle that ph_install_hook wrote or that ph_remove_hook was
\* called with (NullName and 0 otherwise)
NoRet == [op |-> "none", name |-> NullName, h |-> 0, val |-> 0]
NoCall == [name |-> NullName, repl |-> 0, h |-> 0]
\* code 1: the call has not returned
NoRace == [name |-> NullName, repl |-> 0, code |-> 1]
ZeroHandle == [id |-> 0, function_name |-> EmptyName, is_valid |-> FALSE]

\* PHookConfigData g_config_data = {0}
ZeroConfig ==
    [user_id |-> 0, group_id |-> 0, hostname |-> "", system_name |-> "",
     machine |-> "", release |-> "", version |-> ""]

\* the PHookConfigData structs callers pass by address (0 is NULL)
Configs ==
    <<[user_id |-> 501, group_id |-> 20, hostname |-> "host-a",
       system_name |-> "sys-a", machine |-> "mach-a", release |-> "rel-a",
       version |-> "ver-a"],
      [user_id |-> 502, group_id |-> 21, hostname |-> "host-b",
       system_name |-> "sys-b", machine |-> "mach-b", release |-> "rel-b",
       version |-> "ver-b"]>>

\* the struct utsname a caller of uname passes, before uname fills it
ZeroUtsname ==
    [sysname |-> "", machine |-> "", release |-> "", version |-> "",
     nodename |-> ""]

\* config_data: the thread's config_data argument (an index of Configs),
\* i: the number of fields its call has copied, buf: its struct utsname,
\* wrote: its call has changed g_config_data, name and len: the buffer and the
\* capacity it passes to gethostname
NoLocal ==
    [config_data |-> 0, i |-> 0, buf |-> ZeroUtsname, wrote |-> FALSE,
     name |-> <<>>, len |-> 0]

PHookEntry(name, original, replacement) ==
    [function_name |-> strncpy(name, FieldSize),
     original_function |-> original,
     replacement_function |-> replacement,
     is_active |-> TRUE]

\* index of the first entry whose stored name equals name, 0 for NULL
ph_find_hook_by_name(list, name) ==
    LET hits == {i \in 1..Len(list) : strcmp0(list[i].function_name, name)}
    IN IF hits = {} THEN 0 ELSE CHOOSE i \in hits : \A j \in hits : i <= j

RemoveAt(s, i) == SubSeq(s, 1, i - 1) \o SubSeq(s, i + 1, Len(s))

Returns(op, name, h, val) == ret' = [op |-> op, name |-> name, h |-> h, val |-> val]

Init ==
    /\ platform_supported \in BOOLEAN
    /\ g_hook_system_initialized = FALSE
    /\ g_hook_list_head = <<>>
    /\ g_next_hook_id = 1
    /\ g_hook_mutex = 0
    /\ handle = [h \in Slots |-> ZeroHandle]
    /\ ret = NoRet
    /\ pc = [t \in Threads |-> "idle"]
    /\ call = [t \in Threads |-> NoCall]
    /\ race = [t \in Threads |-> NoRace]
    /\ g_config_data = ZeroConfig
    /\ local = [t \in Threads |-> NoLocal]
    /\ h_req = <<>>
    /\ h_consumed = [h \in Slots |-> FALSE]
    /\ h_issued = {}
    /\ h_issued_ever = {}

(***************************************************************************)
(* ph_initialize                                                           *)
(***************************************************************************)
\* initialize_result without the early return for an initialized registry
initialize_result_always_resets(inited, list, nid, supported) ==
    IF ~supported
    THEN [code |-> PH_ERROR_UNSUPPORTED_PLATFORM, inited |-> inited,
          list |-> list, next_id |-> nid]
    ELSE [code |-> PH_SUCCESS, inited |-> TRUE, list |-> <<>>, next_id |-> 1]

\* the return code of ph_initialize and the registry it leaves
initialize_result(inited, list, nid, supported) ==
    IF inited
    THEN [code |-> PH_SUCCESS, inited |-> inited, list |-> list, next_id |-> nid]
    ELSE IF ~supported
    THEN [code |-> PH_ERROR_UNSUPPORTED_PLATFORM, inited |-> inited,
          list |-> list, next_id |-> nid]
    ELSE [code |-> PH_SUCCESS, inited |-> TRUE, list |-> <<>>, next_id |-> 1]

ph_initialize ==
    /\ g_hook_mutex = 0
    /\ LET r == initialize_result(g_hook_system_initialized, g_hook_list_head,
                                  g_next_hook_id, platform_supported)
           reset == ~g_hook_system_initialized /\ r.inited
       IN /\ g_hook_system_initialized' = r.inited
          /\ g_hook_list_head' = r.list
          /\ g_next_hook_id' = r.next_id
          /\ h_req' = IF reset THEN <<>> ELSE h_req
          /\ h_issued' = IF reset THEN {} ELSE h_issued
          /\ Returns("initialize", NullName, 0, r.code)
    /\ UNCHANGED <<platform_supported, g_config_data, threads, handle,
                   h_consumed, h_issued_ever>>

(***************************************************************************)
(* ph_cleanup                                                              *)
(***************************************************************************)
\* cleanup_result that clears the flag but leaves the list
cleanup_result_keeps_entries(inited, list) ==
    IF ~inited
    THEN [inited |-> inited, list |-> list]
    ELSE [inited |-> FALSE, list |-> list]

\* the registry ph_cleanup leaves
cleanup_result(inited, list) ==
    IF ~inited
    THEN [inited |-> inited, list |-> list]
    ELSE [inited |-> FALSE, list |-> <<>>]

ph_cleanup ==
    /\ g_hook_mutex = 0
    /\ LET r == cleanup_result(g_hook_system_initialized, g_hook_list_head)
       IN /\ g_hook_system_initialized' = r.inited
          /\ g_hook_list_head' = r.list
          /\ h_req' = IF g_hook_system_initialized THEN <<>> ELSE h_req
    /\ Returns("cleanup", NullName, 0, 0)
    /\ UNCHANGED <<platform_supported, g_config_data, threads, g_next_hook_id, handle,
                   h_consumed, h_issued, h_issued_ever>>

(***************************************************************************)
(* ph_install_hook                                                         *)
(***************************************************************************)
\* install_result with the id taken from the counter before the allocation:
\* a failed malloc then still advances g_next_hook_id
install_result_id_before_malloc(inited, list, nid, name, repl, mem_ok) ==
    LET same(code) == [code |-> code, list |-> list, next_id |-> nid,
                       wrote |-> FALSE, hnd |-> ZeroHandle]
    IN IF ~inited THEN same(PH_ERROR_INVALID_PARAM)
       ELSE IF ph_find_hook_by_name(list, name) # 0
       THEN same(PH_ERROR_ALREADY_HOOKED)
       ELSE IF dlsym(name) = 0 THEN same(PH_ERROR_FUNCTION_NOT_FOUND)
       ELSE IF ~mem_ok
       THEN [code |-> PH_ERROR_MEMORY_ERROR, list |-> list, next_id |-> nid + 1,
             wrote |-> FALSE, hnd |-> ZeroHandle]
       ELSE [code |-> PH_SUCCESS,
             list |-> <<PHookEntry(name, dlsym(name), repl)>> \o list,
             next_id |-> nid + 1,
             wrote |-> TRUE,
             hnd |-> [id |-> nid,
                      function_name |-> strncpy(name, FieldSize),
                      is_valid |-> TRUE]]

\* install_result without the check of g_hook_system_initialized
install_result_without_init_check(inited, list, nid, name, repl, mem_ok) ==
    LET same(code) == [code |-> code, list |-> list, next_id |-> nid,
                       wrote |-> FALSE, hnd |-> ZeroHandle]
    IN IF ph_find_hook_by_name(list, name) # 0
       THEN same(PH_ERROR_ALREADY_HOOKED)
       ELSE IF dlsym(name) = 0 THEN same(PH_ERROR_FUNCTION_NOT_FOUND)
       ELSE IF ~mem_ok THEN same(PH_ERROR_MEMORY_ERROR)
       ELSE [code |-> PH_SUCCESS,
             list |-> <<PHookEntry(name, dlsym(name), repl)>> \o list,
             next_id |-> nid + 1,
             wrote |-> TRUE,
             hnd |-> [id |-> nid,
                      function_name |-> strncpy(name, FieldSize),
                      is_valid |-> TRUE]]

\* install_result without the increment of g_next_hook_id
install_result_without_increment(inited, list, nid, name, repl, mem_ok) ==
    LET same(code) == [code |-> code, list |-> list, next_id |-> nid,
                       wrote |-> FALSE, hnd |-> ZeroHandle]
    IN IF ~inited THEN same(PH_ERROR_INVALID_PARAM)
       ELSE IF ph_find_hook_by_name(list, name) # 0
       THEN same(PH_ERROR_ALREADY_HOOKED)
       ELSE IF dlsym(name) = 0 THEN same(PH_ERROR_FUNCTION_NOT_FOUND)
       ELSE IF ~mem_ok THEN same(PH_ERROR_MEMORY_ERROR)
       ELSE [code |-> PH_SUCCESS,
             list |-> <<PHookEntry(name, dlsym(name), repl)>> \o list,
             next_id |-> nid,
             wrote |-> TRUE,
             hnd |-> [id |-> nid,
                      function_name |-> strncpy(name, FieldSize),
                      is_valid |-> TRUE]]

\* the critical section of ph_install_hook: the return code, the list and the
\* counter it leaves, and the handle it writes (wrote) on success.
\* g_next_hook_id is a uint32_t: g_next_hook_id++ wraps to 0 after 2^32 - 1,
\* which the guard g_next_hook_id < MaxId of ph_install_hook keeps out of
\* reach, so the increment is the plain one here.
install_result(inited, list, nid, name, repl, mem_ok) ==
    LET same(code) == [code |-> code, list |-> list, next_id |-> nid,
                       wrote |-> FALSE, hnd |-> ZeroHandle]
    IN IF ~inited THEN same(PH_ERROR_INVALID_PARAM)
       ELSE IF ph_find_hook_by_name(list, name) # 0
       THEN same(PH_ERROR_ALREADY_HOOKED)
       ELSE IF dlsym(name) = 0 THEN same(PH_ERROR_FUNCTION_NOT_FOUND)
       ELSE IF ~mem_ok THEN same(PH_ERROR_MEMORY_ERROR)
       ELSE [code |-> PH_SUCCESS,
             list |-> <<PHookEntry(name, dlsym(name), repl)>> \o list,
             next_id |-> nid + 1,
             wrote |-> TRUE,
             hnd |-> [id |-> nid,
                      function_name |-> strncpy(name, FieldSize),
                      is_valid |-> TRUE]]

\* malloc(sizeof(PHookEntry)) may fail, and fails once the heap is full
MallocOutcomes(list) == IF Len(list) < MaxHooks THEN BOOLEAN ELSE {FALSE}

\* the critical section of ph_install_hook(name, repl, &handle[h]) and what it
\* returns
install_cs(name, repl, h) ==
    \E mem_ok \in MallocOutcomes(g_hook_list_head) :
        LET r == install_result(g_hook_system_initialized, g_hook_list_head,
                                g_next_hook_id, name, repl, mem_ok)
        IN /\ g_hook_list_head' = r.list
           /\ g_next_hook_id' = r.next_id
           /\ handle' = IF r.wrote THEN [handle EXCEPT ![h] = r.hnd] ELSE handle
           /\ h_req' = IF r.wrote THEN <<name>> \o h_req ELSE h_req
           /\ h_consumed' = IF r.wrote THEN [h_consumed EXCEPT ![h] = FALSE]
                            ELSE h_consumed
           /\ h_issued' = IF r.wrote THEN h_issued \cup {r.hnd.id} ELSE h_issued
           /\ h_issued_ever' = IF r.wrote THEN h_issued_ever \cup {r.hnd.id}
                               ELSE h_issued_ever
           /\ Returns("install", name, IF r.wrote THEN h ELSE 0, r.code)
           /\ UNCHANGED <<platform_supported, g_config_data, g_hook_system_initialized>>

ph_install_hook(name, repl, h) ==
    /\ g_next_hook_id < MaxId
    /\ IF name = NullName \/ repl = 0 \/ h = 0
       THEN /\ Returns("install", NullName, 0, PH_ERROR_INVALID_PARAM)
            /\ UNCHANGED <<platform_supported, g_config_data, registry, handle, history>>
       ELSE /\ g_hook_mutex = 0
            /\ install_cs(name, repl, h)
    /\ UNCHANGED threads

(***************************************************************************)
(* ph_remove_hook                                                          *)
(***************************************************************************)
\* the critical section of ph_remove_hook: the return code, the index of the
\* entry it unlinks (0 for none) and the list it leaves
remove_result(inited, list, hnd) ==
    LET i == ph_find_hook_by_name(list, hnd.function_name)
    IN IF ~inited
       THEN [code |-> PH_ERROR_INVALID_PARAM, at |-> 0, list |-> list]
       ELSE IF i = 0
       THEN [code |-> PH_ERROR_NOT_HOOKED, at |-> 0, list |-> list]
       ELSE [code |-> PH_SUCCESS, at |-> i, list |-> RemoveAt(list, i)]

ph_remove_hook(h) ==
    /\ IF h = 0 \/ ~handle[h].is_valid
       THEN /\ Returns("remove", NullName, h, PH_ERROR_INVALID_PARAM)
            /\ UNCHANGED <<g_hook_list_head, h_req, h_consumed>>
       ELSE /\ g_hook_mutex = 0
            /\ LET r == remove_result(g_hook_system_initialized,
                                      g_hook_list_head, handle[h])
               IN /\ g_hook_list_head' = r.list
                  /\ h_req' = IF r.at # 0 THEN RemoveAt(h_req, r.at) ELSE h_req
                  /\ h_consumed' = IF r.at # 0
                                   THEN [h_consumed EXCEPT ![h] = TRUE]
                                   ELSE h_consumed
                  /\ Returns("remove", NullName, h, r.code)
    /\ UNCHANGED <<platform_supported, g_config_data, threads, g_hook_system_initialized,
                   g_next_hook_id, handle, h_issued, h_issued_ever>>

(***************************************************************************)
(* ph_get_original, ph_is_hooked, ph_get_active_hook_count                 *)
(***************************************************************************)
\* get_original_result that reads replacement_function
get_original_result_replacement(list, hnd) ==
    LET i == ph_find_hook_by_name(list, hnd.function_name)
    IN IF i = 0 THEN 0 ELSE list[i].replacement_function

\* what ph_get_original returns for a valid handle
get_original_result(list, hnd) ==
    LET i == ph_find_hook_by_name(list, hnd.function_name)
    IN IF i = 0 THEN 0 ELSE list[i].original_function

ph_get_original(h) ==
    /\ IF h = 0 \/ ~handle[h].is_valid
       THEN Returns("get_original", NullName, 0, 0)
       ELSE /\ g_hook_mutex = 0
            /\ Returns("get_original", NullName, 0,
                       get_original_result(g_hook_list_head, handle[h]))
    /\ UNCHANGED <<platform_supported, g_config_data, threads, registry, handle, history>>

\* what ph_is_hooked returns for a name that is not NULL
is_hooked_result(list, name) == ph_find_hook_by_name(list, name) # 0

ph_is_hooked(name) ==
    /\ IF name = NullName
       THEN Returns("is_hooked", NullName, 0, 0)
       ELSE /\ g_hook_mutex = 0
            /\ Returns("is_hooked", NullName, 0,
                       IF is_hooked_result(g_hook_list_head, name) THEN 1 ELSE 0)
    /\ UNCHANGED <<platform_supported, g_config_data, threads, registry, handle, history>>

\* what ph_get_active_hook_count returns
active_count_result(list) ==
    Cardinality({i \in 1..Len(list) : list[i].is_active})

ph_get_active_hook_count ==
    /\ g_hook_mutex = 0
    /\ Returns("active_count", NullName, 0, active_count_result(g_hook_list_head))
    /\ UNCHANGED <<platform_supported, g_config_data, threads, registry, handle, history>>

(***************************************************************************)
(* ph_get_active_hooks                                                     *)
(***************************************************************************)
\* the loop of ph_get_active_hooks from entry i of the list on: count, offset
\* and the names copied so far, each of which strcpy writes with its
\* terminator, one behind the other from buffer[0] on
RECURSIVE get_active_hooks_loop(_, _, _, _, _, _)
get_active_hooks_loop(list, i, offset, count, names, buffer_size) ==
    IF i > Len(list) \/ ~(offset < buffer_size - 1)
    THEN [count |-> count, offset |-> offset, names |-> names]
    ELSE IF list[i].is_active
    THEN LET name_len == Len(list[i].function_name)
         IN IF offset + name_len + 1 < buffer_size
            THEN get_active_hooks_loop(list, i + 1, offset + name_len + 1,
                                       count + 1,
                                       Append(names, list[i].function_name),
                                       buffer_size)
            ELSE [count |-> count, offset |-> offset, names |-> names]
    ELSE get_active_hooks_loop(list, i + 1, offset, count, names, buffer_size)

\* what ph_get_active_hooks(buffer, buffer_size) returns and writes;
\* buffer_ok: buffer is not NULL
get_active_hooks_result(list, buffer_ok, buffer_size) ==
    IF ~buffer_ok \/ buffer_size = 0
    THEN [count |-> 0, offset |-> 0, names |-> <<>>]
    ELSE get_active_hooks_loop(list, 1, 0, 0, <<>>, buffer_size)

\* the capacities callers pass: none, too small for any name, and the sizes
\* of one and of two stored names with their terminators, and one more
BufferSizes == {0, 1, 7, 8, 256, 257, 263, 264, 512, 513}

ph_get_active_hooks(buffer_ok, buffer_size) ==
    /\ (buffer_ok /\ buffer_size # 0) => g_hook_mutex = 0
    /\ Returns("active_hooks", NullName, 0,
               get_active_hooks_result(g_hook_list_head, buffer_ok,
                                       buffer_size).count)
    /\ UNCHANGED <<platform_supported, g_config_data, threads, registry, handle,
                   history>>

(***************************************************************************)
(* The program: the threads call any operation at any time.                *)
(***************************************************************************)
\* the arguments callers pass to ph_install_hook: every well-formed triple,
\* and the triples with one null pointer
InstallArgs ==
    (Names \X Replacements \X Slots)
    \cup {<<NullName, 2001, 1>>, <<GetUid, 0, 1>>, <<GetUid, 2001, 0>>}

Next ==
    \/ ph_initialize
    \/ ph_cleanup
    \/ \E a \in InstallArgs : ph_install_hook(a[1], a[2], a[3])
    \/ \E h \in Slots \cup {0} : ph_remove_hook(h)
    \/ \E h \in Slots \cup {0} : ph_get_original(h)
    \/ \E name \in NameUniverse \cup {NullName} : ph_is_hooked(name)
    \/ ph_get_active_hook_count
    \/ \E buffer_ok \in BOOLEAN : \E buffer_size \in BufferSizes :
          ph_get_active_hooks(buffer_ok, buffer_size)

Spec == Init /\ [][Next]_vars

(***************************************************************************)
(* Race scenario: every thread calls ph_install_hook for the same          *)
(* resolvable name at the same time, on an initialized, empty registry.    *)
(* All threads have passed the argument checks and wait for the mutex.     *)
(***************************************************************************)
InitRace ==
    /\ platform_supported = TRUE
    /\ g_hook_system_initialized = TRUE
    /\ g_hook_list_head = <<>>
    /\ g_next_hook_id \in 1..(MaxId - 1)
    /\ g_hook_mutex = 0
    /\ handle = [h \in Slots |-> ZeroHandle]
    /\ ret = NoRet
    /\ pc = [t \in Threads |-> "wait"]
    /\ \E name \in {n \in Names : dlsym(n) # 0} :
       \E repls \in [Threads -> Replacements] :
          /\ call = [t \in Threads |->
                        [name |-> name, repl |-> repls[t],
                         h |-> ((t - 1) % Cardinality(Slots)) + 1]]
          /\ race = [t \in Threads |->
                        [name |-> name, repl |-> repls[t], code |-> 1]]
    /\ g_config_data = ZeroConfig
    /\ local = [t \in Threads |-> NoLocal]
    /\ h_req = <<>>
    /\ h_consumed = [h \in Slots |-> FALSE]
    /\ h_issued = {}
    /\ h_issued_ever = {}

\* a thread blocked in pthread_mutex_lock obtains the mutex
pthread_mutex_lock(t) ==
    /\ pc[t] = "wait"
    /\ g_hook_mutex = 0
    /\ g_hook_mutex' = t
    /\ pc' = [pc EXCEPT ![t] = "locked"]
    /\ UNCHANGED <<platform_supported, g_config_data, registry, handle, ret,
                   call, race, local, history>>

\* the thread that holds the mutex runs the critical section of its
\* ph_install_hook call, unlocks and returns
RaceInstall(t) ==
    /\ pc[t] = "locked"
    /\ g_hook_mutex = t
    /\ install_cs(call[t].name, call[t].repl, call[t].h)
    /\ g_hook_mutex' = 0
    /\ pc' = [pc EXCEPT ![t] = "idle"]
    /\ race' = [race EXCEPT ![t].code = ret'.val]
    /\ UNCHANGED <<call, local>>

NextRace == \E t \in Threads : pthread_mutex_lock(t) \/ RaceInstall(t)

SpecRace == InitRace /\ [][NextRace]_vars

(***************************************************************************)
(* Distinct-names scenario: every thread calls ph_install_hook for a        *)
(* resolvable name of its own at the same time, on an initialized, empty   *)
(* registry.  The threads take the steps of the race scenario.             *)
(***************************************************************************)
\* the exported symbols the threads install
ResolvableNames == {GetUid, GetGid, LongName, LongName2}

InitDistinct ==
    /\ platform_supported = TRUE
    /\ g_hook_system_initialized = TRUE
    /\ g_hook_list_head = <<>>
    /\ g_next_hook_id \in 1..(MaxId - 1)
    /\ g_hook_mutex = 0
    /\ handle = [h \in Slots |-> ZeroHandle]
    /\ ret = NoRet
    /\ pc = [t \in Threads |-> "wait"]
    /\ \E names \in {f \in [Threads -> ResolvableNames] :
                        \A t, u \in Threads : t # u => f[t] # f[u]} :
       \E repls \in [Threads -> Replacements] :
          /\ call = [t \in Threads |->
                        [name |-> names[t], repl |-> repls[t],
                         h |-> ((t - 1) % Cardinality(Slots)) + 1]]
          /\ race = [t \in Threads |->
                        [name |-> names[t], repl |-> repls[t], code |-> 1]]
    /\ g_config_data = ZeroConfig
    /\ local = [t \in Threads |-> NoLocal]
    /\ h_req = <<>>
    /\ h_consumed = [h \in Slots |-> FALSE]
    /\ h_issued = {}
    /\ h_issued_ever = {}

SpecDistinct == InitDistinct /\ [][NextRace]_vars

(***************************************************************************)
(* Configuration scenario: every thread makes one call, of a convenience   *)
(* installer ph_install_<function>_hook or of the handler hooked_uname,     *)
(* while ph_initialize and ph_cleanup are called at any time.  A thread     *)
(* takes one step per lock, per critical section and per field it copies   *)
(* outside a critical section; the copy of one field is one step.           *)
(***************************************************************************)
\* the handler each convenience installer passes as replacement
HandlerOf(name) ==
    CASE name = GetUid -> 3001
      [] name = GetGid -> 3002
      [] name = GetHostName -> 3003
      [] name = UName -> 3004

\* the fields of g_config_data in the order ph_install_uname_hook writes and
\* hooked_uname reads them, the fields of struct utsname they go to, and the
\* sizes of the fields of g_config_data
UnameFields == <<"system_name", "machine", "release", "version", "hostname">>
UtsnameFields == <<"sysname", "machine", "release", "version", "nodename">>
ConfigFieldSize(f) == IF f = "version" THEN 512 ELSE FieldSize

\* the handle a thread passes
SlotOf(t) == ((t - 1) % Cardinality(Slots)) + 1

InitConfig ==
    /\ platform_supported \in BOOLEAN
    /\ g_hook_system_initialized = FALSE
    /\ g_hook_list_head = <<>>
    /\ g_next_hook_id = 1
    /\ g_hook_mutex = 0
    /\ handle = [h \in Slots |-> ZeroHandle]
    /\ ret = NoRet
    /\ pc = [t \in Threads |-> "start"]
    /\ call = [t \in Threads |-> NoCall]
    /\ race = [t \in Threads |-> NoRace]
    /\ g_config_data = ZeroConfig
    /\ local = [t \in Threads |-> NoLocal]
    /\ h_req = <<>>
    /\ h_consumed = [h \in Slots |-> FALSE]
    /\ h_issued = {}
    /\ h_issued_ever = {}

\* the argument check of a convenience installer for function name: the call
\* returns InvalidParameter, or goes on at first
convenience_call(t, name, first, c, h) ==
    /\ IF c = 0 \/ h = 0
       THEN /\ pc' = [pc EXCEPT ![t] = "idle"]
            /\ race' = [race EXCEPT ![t] = [name |-> name, repl |-> HandlerOf(name),
                                            code |-> PH_ERROR_INVALID_PARAM]]
            /\ UNCHANGED <<call, local>>
       ELSE /\ pc' = [pc EXCEPT ![t] = first]
            /\ race' = [race EXCEPT ![t] = [name |-> name, repl |-> HandlerOf(name),
                                            code |-> 1]]
            /\ call' = [call EXCEPT ![t] = [name |-> name, repl |-> HandlerOf(name),
                                            h |-> h]]
            /\ local' = [local EXCEPT ![t].config_data = c]
    /\ UNCHANGED <<platform_supported, g_config_data, registry, g_hook_mutex,
                   handle, ret, history>>

ph_install_getuid_hook(t, c, h) ==
    /\ pc[t] = "start"
    /\ convenience_call(t, GetUid, "uid_lock", c, h)

ph_install_getgid_hook(t, c, h) ==
    /\ pc[t] = "start"
    /\ convenience_call(t, GetGid, "gid_lock", c, h)

ph_install_gethostname_hook(t, c, h) ==
    /\ pc[t] = "start"
    /\ convenience_call(t, GetHostName, "hostname_set", c, h)

ph_install_uname_hook(t, c, h) ==
    /\ pc[t] = "start"
    /\ convenience_call(t, UName, "uname_set", c, h)

\* pthread_mutex_lock of ph_install_getuid_hook and ph_install_getgid_hook
lock_config(t) ==
    /\ pc[t] \in {"uid_lock", "gid_lock"}
    /\ g_hook_mutex = 0
    /\ g_hook_mutex' = t
    /\ pc' = [pc EXCEPT ![t] = IF pc[t] = "uid_lock" THEN "uid_set" ELSE "gid_set"]
    /\ UNCHANGED <<platform_supported, g_config_data, registry, handle, ret,
                   call, race, local, history>>

\* thread t stores data in g_config_data, goes to position next and leaves
\* the mutex to thread m (0: free)
write_config(t, data, next, i, m) ==
    /\ g_config_data' = data
    /\ pc' = [pc EXCEPT ![t] = next]
    /\ local' = [local EXCEPT ![t].i = i,
                              ![t].wrote = @ \/ data # g_config_data]
    /\ g_hook_mutex' = m
    /\ UNCHANGED <<platform_supported, registry, handle, ret, call, race, history>>

\* g_config_data.user_id = config_data->user_id; pthread_mutex_unlock
set_user_id(t) ==
    /\ pc[t] = "uid_set"
    /\ g_hook_mutex = t
    /\ write_config(t, [g_config_data EXCEPT
                           !.user_id = Configs[local[t].config_data].user_id],
                    "wait", 0, 0)

\* g_config_data.group_id = config_data->group_id; pthread_mutex_unlock
set_group_id(t) ==
    /\ pc[t] = "gid_set"
    /\ g_hook_mutex = t
    /\ write_config(t, [g_config_data EXCEPT
                           !.group_id = Configs[local[t].config_data].group_id],
                    "wait", 0, 0)

\* the strncpy and terminator of ph_install_gethostname_hook, no lock taken
set_hostname(t) ==
    /\ pc[t] = "hostname_set"
    /\ write_config(t, [g_config_data EXCEPT
                           !.hostname = strncpy(Configs[local[t].config_data].hostname,
                                                ConfigFieldSize("hostname"))],
                    "wait", 0, g_hook_mutex)

\* one of the five strncpy of ph_install_uname_hook, no lock taken
set_uname_field(t) ==
    /\ pc[t] = "uname_set"
    /\ LET f == UnameFields[local[t].i + 1]
           last == local[t].i + 1 = Len(UnameFields)
       IN write_config(t, [g_config_data EXCEPT
                             ![f] = strncpy(Configs[local[t].config_data][f],
                                            ConfigFieldSize(f))],
                       IF last THEN "wait" ELSE "uname_set",
                       IF last THEN 0 ELSE local[t].i + 1,
                       g_hook_mutex)

\* hooked_uname(buf): returns -1 for a null buf, else starts to copy
hooked_uname(t, buf_ok) ==
    /\ pc[t] = "start"
    /\ pc' = [pc EXCEPT ![t] = IF buf_ok THEN "uname_read" ELSE "idle"]
    /\ race' = [race EXCEPT ![t] = [name |-> UName, repl |-> 0,
                                    code |-> IF buf_ok THEN 1 ELSE -1]]
    /\ UNCHANGED <<platform_supported, g_config_data, registry, g_hook_mutex,
                   handle, ret, call, local, history>>

\* one of the five strncpy of hooked_uname, no lock taken; after the last one
\* hooked_uname returns 0
read_uname_field(t) ==
    /\ pc[t] = "uname_read"
    /\ LET i == local[t].i + 1
           last == i = Len(UnameFields)
       IN /\ local' = [local EXCEPT
                         ![t].buf[UtsnameFields[i]] =
                             strncpy(g_config_data[UnameFields[i]], FieldSize),
                         ![t].i = IF last THEN 0 ELSE i]
          /\ pc' = [pc EXCEPT ![t] = IF last THEN "idle" ELSE "uname_read"]
          /\ race' = [race EXCEPT ![t].code = IF last THEN 0 ELSE 1]
    /\ UNCHANGED <<platform_supported, g_config_data, registry, g_hook_mutex,
                   handle, ret, call, history>>

\* the config_data and handle arguments of the convenience installers (0 is
\* NULL)
ConfigArgs(t) == (0..Len(Configs)) \X {0, SlotOf(t)}

NextConfig ==
    \/ ph_initialize
    \/ ph_cleanup
    \/ \E t \in Threads : \E a \in ConfigArgs(t) : ph_install_getuid_hook(t, a[1], a[2])
    \/ \E t \in Threads : \E a \in ConfigArgs(t) : ph_install_getgid_hook(t, a[1], a[2])
    \/ \E t \in Threads : \E a \in ConfigArgs(t) :
          ph_install_gethostname_hook(t, a[1], a[2])
    \/ \E t \in Threads : \E a \in ConfigArgs(t) : ph_install_uname_hook(t, a[1], a[2])
    \/ \E t \in Threads : lock_config(t)
    \/ \E t \in Threads : set_user_id(t)
    \/ \E t \in Threads : set_group_id(t)
    \/ \E t \in Threads : set_hostname(t)
    \/ \E t \in Threads : set_uname_field(t)
    \/ \E t \in Threads : pthread_mutex_lock(t)
    \/ \E t \in Threads : RaceInstall(t)
    \/ \E t \in Threads : \E buf_ok \in BOOLEAN : hooked_uname(t, buf_ok)
    \/ \E t \in Threads : read_uname_field(t)

SpecConfig == InitConfig /\ [][NextConfig]_vars

(***************************************************************************)
(* Hostname scenario: a hostname is configured and every thread calls the   *)
(* handler hooked_gethostname once, with a buffer and a capacity of its     *)
(* own.  A buffer is a sequence of bytes, each a one-character string, NUL  *)
(* or Untouched; index i of the C array is element i + 1.  A buffer has one *)
(* cell more than the largest capacity, so that a write past the capacity   *)
(* shows.                                                                   *)
(***************************************************************************)
NUL == "NUL"
Untouched == "?"

\* the hostnames a caller has configured
Hostnames == {"", "a", "ab", "abc", "abcd"}

\* the memory at and after the address a caller passes as name
FreshBuffer == [i \in 1..(MaxCap + 1) |-> Untouched]

\* hooked_gethostname with the comparison len < hostname_len
hooked_gethostname_result_off_by_one(hostname, name, len) ==
    LET hostname_len == Len(hostname)
    IN IF len < hostname_len
       THEN [code |-> -1, name |-> name]
       ELSE [code |-> 0,
             name |-> [i \in DOMAIN name |->
                         IF i <= len - 1
                         THEN IF i <= hostname_len THEN SubSeq(hostname, i, i)
                              ELSE NUL
                         ELSE IF i = len THEN NUL ELSE name[i]]]

\* what hooked_gethostname(name, len) returns and leaves in name: strncpy
\* writes len - 1 bytes, the hostname and then padding of NUL, and
\* name[len - 1] = '\0' writes one more
hooked_gethostname_result(hostname, name, len) ==
    LET hostname_len == Len(hostname)
    IN IF len <= hostname_len
       THEN [code |-> -1, name |-> name]
       ELSE [code |-> 0,
             name |-> [i \in DOMAIN name |->
                         IF i <= len - 1
                         THEN IF i <= hostname_len THEN SubSeq(hostname, i, i)
                              ELSE NUL
                         ELSE IF i = len THEN NUL ELSE name[i]]]

InitHostname ==
    /\ platform_supported = TRUE
    /\ g_hook_system_initialized = FALSE
    /\ g_hook_list_head = <<>>
    /\ g_next_hook_id = 1
    /\ g_hook_mutex = 0
    /\ handle = [h \in Slots |-> ZeroHandle]
    /\ ret = NoRet
    /\ pc = [t \in Threads |-> "start"]
    /\ call = [t \in Threads |-> NoCall]
    /\ race = [t \in Threads |-> NoRace]
    /\ \E hostname \in Hostnames :
          g_config_data = [ZeroConfig EXCEPT
                             !.hostname = strncpy(hostname, ConfigFieldSize("hostname"))]
    /\ local = [t \in Threads |-> [NoLocal EXCEPT !.name = FreshBuffer]]
    /\ h_req = <<>>
    /\ h_consumed = [h \in Slots |-> FALSE]
    /\ h_issued = {}
    /\ h_issued_ever = {}

hooked_gethostname(t, len) ==
    /\ pc[t] = "start"
    /\ LET r == hooked_gethostname_result(g_config_data.hostname,
                                          local[t].name, len)
       IN /\ local' = [local EXCEPT ![t].name = r.name, ![t].len = len]
          /\ race' = [race EXCEPT ![t] = [name |-> GetHostName, repl |-> 0,
                                          code |-> r.code]]
    /\ pc' = [pc EXCEPT ![t] = "idle"]
    /\ UNCHANGED <<platform_supported, g_config_data, registry, g_hook_mutex,
                   handle, ret, call, history>>

NextHostname == \E t \in Threads : \E len \in 0..MaxCap : hooked_gethostname(t, len)

SpecHostname == InitHostname /\ [][NextHostname]_vars

(***************************************************************************)
(* Lock scenario: every thread makes one call of a public operation, on a  *)
(* registry that is uninitialized, initialized and empty, or holds one     *)
(* hook.  A call takes one step for its argument check, one for            *)
(* pthread_mutex_lock and one for its critical section, which ends with    *)
(* the return; the convenience installers take the steps of the            *)
(* configuration scenario before those of ph_install_hook.                 *)
(* ph_install_uname_hook, which like ph_install_gethostname_hook takes no  *)
(* lock before it calls ph_install_hook, is left to the configuration      *)
(* scenario.                                                               *)
(***************************************************************************)
\* the operations that lock at their first statement after the argument check
LockOps ==
    {"initialize", "cleanup", "remove", "get_original", "is_hooked",
     "active_count", "active_hooks"}

\* the positions of a thread in op: blocked in pthread_mutex_lock, and in the
\* critical section
Waiting(op) == op \o "_wait"
Locked(op) == op \o "_locked"

\* unlocks_before_return without the pthread_mutex_unlock of the
\* AlreadyHooked exit of ph_install_hook
unlocks_before_return_but_already_hooked(op, code) ==
    CASE op = "initialize" ->
            code \in {PH_SUCCESS, PH_ERROR_UNSUPPORTED_PLATFORM}
      [] op = "cleanup" -> TRUE
      [] op = "install" ->
            code \in {PH_ERROR_INVALID_PARAM, PH_ERROR_FUNCTION_NOT_FOUND,
                      PH_ERROR_MEMORY_ERROR, PH_SUCCESS}
      [] op = "remove" ->
            code \in {PH_ERROR_INVALID_PARAM, PH_SUCCESS, PH_ERROR_NOT_HOOKED}
      [] OTHER -> TRUE

\* the return statement of op with value code, reached with the mutex held,
\* has a pthread_mutex_unlock before it
unlocks_before_return(op, code) ==
    CASE op = "initialize" ->
            code \in {PH_SUCCESS, PH_ERROR_UNSUPPORTED_PLATFORM}
      [] op = "cleanup" -> TRUE
      [] op = "install" ->
            code \in {PH_ERROR_INVALID_PARAM, PH_ERROR_ALREADY_HOOKED,
                      PH_ERROR_FUNCTION_NOT_FOUND, PH_ERROR_MEMORY_ERROR,
                      PH_SUCCESS}
      [] op = "remove" ->
            code \in {PH_ERROR_INVALID_PARAM, PH_SUCCESS, PH_ERROR_NOT_HOOKED}
      [] OTHER -> TRUE

\* the registry with one hook, installed through handle 1
OneHook == <<PHookEntry(GetUid, dlsym(GetUid), 2001)>>
OneHandle == [id |-> 1, function_name |-> GetUid, is_valid |-> TRUE]

InitLock ==
    /\ g_hook_mutex = 0
    /\ ret = NoRet
    /\ pc = [t \in Threads |-> "start"]
    /\ call = [t \in Threads |-> NoCall]
    /\ race = [t \in Threads |-> NoRace]
    /\ g_config_data = ZeroConfig
    /\ local = [t \in Threads |-> NoLocal]
    /\ h_consumed = [h \in Slots |-> FALSE]
    /\ \/ /\ platform_supported \in BOOLEAN
          /\ g_hook_system_initialized = FALSE
          /\ g_hook_list_head = <<>>
          /\ g_next_hook_id = 1
          /\ handle = [h \in Slots |-> ZeroHandle]
          /\ h_req = <<>>
          /\ h_issued = {}
          /\ h_issued_ever = {}
       \/ /\ platform_supported = TRUE
          /\ g_hook_system_initialized = TRUE
          /\ g_hook_list_head = <<>>
          /\ g_next_hook_id = 1
          /\ handle = [h \in Slots |-> ZeroHandle]
          /\ h_req = <<>>
          /\ h_issued = {}
          /\ h_issued_ever = {}
       \/ /\ platform_supported = TRUE
          /\ g_hook_system_initialized = TRUE
          /\ g_hook_list_head = OneHook
          /\ g_next_hook_id = 2
          /\ handle = [h \in Slots |-> IF h = 1 THEN OneHandle ELSE ZeroHandle]
          /\ h_req = <<GetUid>>
          /\ h_issued = {1}
          /\ h_issued_ever = {1}

\* thread t has passed the argument check of op and goes on to position next
enter(t, next, name, repl, h, len) ==
    /\ pc[t] = "start"
    /\ pc' = [pc EXCEPT ![t] = next]
    /\ call' = [call EXCEPT ![t] = [name |-> name, repl |-> repl, h |-> h]]
    /\ race' = [race EXCEPT ![t] = [name |-> name, repl |-> repl, code |-> 1]]
    /\ local' = [local EXCEPT ![t].len = len]
    /\ UNCHANGED <<platform_supported, g_config_data, registry, g_hook_mutex,
                   handle, ret, history>>

\* the argument check of thread t's call fails: it returns code and has not
\* locked
early_return(t, name, code) ==
    /\ pc[t] = "start"
    /\ pc' = [pc EXCEPT ![t] = "idle"]
    /\ race' = [race EXCEPT ![t] = [name |-> name, repl |-> 0, code |-> code]]
    /\ UNCHANGED <<platform_supported, g_config_data, registry, g_hook_mutex,
                   handle, ret, call, local, history>>

ph_initialize_call(t) ==
    /\ pc[t] = "start"
    /\ enter(t, Waiting("initialize"), NullName, 0, 0, 0)

ph_cleanup_call(t) ==
    /\ pc[t] = "start"
    /\ enter(t, Waiting("cleanup"), NullName, 0, 0, 0)

ph_install_hook_call(t, name, repl, h) ==
    /\ pc[t] = "start"
    /\ IF name = NullName \/ repl = 0 \/ h = 0
       THEN early_return(t, name, PH_ERROR_INVALID_PARAM)
       ELSE enter(t, "wait", name, repl, h, 0)

ph_remove_hook_call(t, h) ==
    /\ pc[t] = "start"
    /\ IF h = 0 \/ ~handle[h].is_valid
       THEN early_return(t, NullName, PH_ERROR_INVALID_PARAM)
       ELSE enter(t, Waiting("remove"), NullName, 0, h, 0)

ph_get_original_call(t, h) ==
    /\ pc[t] = "start"
    /\ IF h = 0 \/ ~handle[h].is_valid
       THEN early_return(t, NullName, 0)
       ELSE enter(t, Waiting("get_original"), NullName, 0, h, 0)

ph_is_hooked_call(t, name) ==
    /\ pc[t] = "start"
    /\ IF name = NullName
       THEN early_return(t, name, 0)
       ELSE enter(t, Waiting("is_hooked"), name, 0, 0, 0)

ph_get_active_hook_count_call(t) ==
    /\ pc[t] = "start"
    /\ enter(t, Waiting("active_count"), NullName, 0, 0, 0)

ph_get_active_hooks_call(t, buffer_ok, buffer_size) ==
    /\ pc[t] = "start"
    /\ IF ~buffer_ok \/ buffer_size = 0
       THEN early_return(t, NullName, 0)
       ELSE enter(t, Waiting("active_hooks"), NullName, 0, 0, buffer_size)

\* a thread blocked in the pthread_mutex_lock of an operation of LockOps
\* obtains the mutex
lock_registry(t) ==
    /\ \E op \in LockOps :
          /\ pc[t] = Waiting(op)
          /\ pc' = [pc EXCEPT ![t] = Locked(op)]
    /\ g_hook_mutex = 0
    /\ g_hook_mutex' = t
    /\ UNCHANGED <<platform_supported, g_config_data, registry, handle, ret,
                   call, race, local, history>>

\* thread t returns code from the critical section of op, which race[t]
\* records: the mutex is free again if that return path unlocks
return_from(t, op, code) ==
    /\ g_hook_mutex' = IF unlocks_before_return(op, code) THEN 0 ELSE g_hook_mutex
    /\ pc' = [pc EXCEPT ![t] = "idle"]
    /\ race' = [race EXCEPT ![t].code = code]
    /\ UNCHANGED <<call, local>>

ph_initialize_locked(t) ==
    /\ pc[t] = Locked("initialize")
    /\ g_hook_mutex = t
    /\ LET r == initialize_result(g_hook_system_initialized, g_hook_list_head,
                                  g_next_hook_id, platform_supported)
           reset == ~g_hook_system_initialized /\ r.inited
       IN /\ g_hook_system_initialized' = r.inited
          /\ g_hook_list_head' = r.list
          /\ g_next_hook_id' = r.next_id
          /\ h_req' = IF reset THEN <<>> ELSE h_req
          /\ h_issued' = IF reset THEN {} ELSE h_issued
          /\ return_from(t, "initialize", r.code)
    /\ UNCHANGED <<platform_supported, g_config_data, handle, ret, h_consumed,
                   h_issued_ever>>

ph_cleanup_locked(t) ==
    /\ pc[t] = Locked("cleanup")
    /\ g_hook_mutex = t
    /\ LET r == cleanup_result(g_hook_system_initialized, g_hook_list_head)
       IN /\ g_hook_system_initialized' = r.inited
          /\ g_hook_list_head' = r.list
          /\ h_req' = IF g_hook_system_initialized THEN <<>> ELSE h_req
    /\ return_from(t, "cleanup", 0)
    /\ UNCHANGED <<platform_supported, g_config_data, g_next_hook_id, handle,
                   ret, h_consumed, h_issued, h_issued_ever>>

ph_install_hook_locked(t) ==
    /\ pc[t] = "locked"
    /\ g_hook_mutex = t
    /\ install_cs(call[t].name, call[t].repl, call[t].h)
    /\ return_from(t, "install", ret'.val)

ph_remove_hook_locked(t) ==
    /\ pc[t] = Locked("remove")
    /\ g_hook_mutex = t
    /\ LET r == remove_result(g_hook_system_initialized, g_hook_list_head,
                              handle[call[t].h])
       IN /\ g_hook_list_head' = r.list
          /\ h_req' = IF r.at # 0 THEN RemoveAt(h_req, r.at) ELSE h_req
          /\ h_consumed' = IF r.at # 0
                           THEN [h_consumed EXCEPT ![call[t].h] = TRUE]
                           ELSE h_consumed
          /\ return_from(t, "remove", r.code)
    /\ UNCHANGED <<platform_supported, g_config_data, g_hook_system_initialized,
                   g_next_hook_id, handle, ret, h_issued, h_issued_ever>>

\* the critical section of an operation that only reads the registry, and the
\* value val it returns
read_locked(t, op, val) ==
    /\ pc[t] = Locked(op)
    /\ g_hook_mutex = t
    /\ return_from(t, op, val)
    /\ UNCHANGED <<platform_supported, g_config_data, registry, handle, ret,
                   history>>

ph_get_original_locked(t) ==
    /\ pc[t] = Locked("get_original")
    /\ read_locked(t, "get_original",
                   get_original_result(g_hook_list_head, handle[call[t].h]))

ph_is_hooked_locked(t) ==
    /\ pc[t] = Locked("is_hooked")
    /\ read_locked(t, "is_hooked",
                   IF is_hooked_result(g_hook_list_head, call[t].name)
                   THEN 1 ELSE 0)

ph_get_active_hook_count_locked(t) ==
    /\ pc[t] = Locked("active_count")
    /\ read_locked(t, "active_count", active_count_result(g_hook_list_head))

ph_get_active_hooks_locked(t) ==
    /\ pc[t] = Locked("active_hooks")
    /\ read_locked(t, "active_hooks",
                   get_active_hooks_result(g_hook_list_head, TRUE,
                                           local[t].len).count)

\* the arguments the threads pass
LockNames == {GetUid, EmptyName, NullName}
LockSizes == {0, 8}

\* thread t calls an operation
CallStep(t) ==
    \/ ph_initialize_call(t)
    \/ ph_cleanup_call(t)
    \/ \E name \in LockNames : \E h \in {0, SlotOf(t)} :
          ph_install_hook_call(t, name, 2001, h)
    \/ \E h \in Slots \cup {0} : ph_remove_hook_call(t, h)
    \/ \E h \in Slots \cup {0} : ph_get_original_call(t, h)
    \/ \E name \in {GetUid, NullName} : ph_is_hooked_call(t, name)
    \/ ph_get_active_hook_count_call(t)
    \/ \E buffer_ok \in BOOLEAN : \E buffer_size \in LockSizes :
          ph_get_active_hooks_call(t, buffer_ok, buffer_size)
    \/ \E c \in {0, 1} : \E h \in {0, SlotOf(t)} :
          \/ ph_install_getuid_hook(t, c, h)
          \/ ph_install_getgid_hook(t, c, h)
          \/ ph_install_gethostname_hook(t, c, h)

\* thread t takes the next step of the call it is in
ThreadStep(t) ==
    \/ lock_config(t)
    \/ set_user_id(t)
    \/ set_group_id(t)
    \/ set_hostname(t)
    \/ pthread_mutex_lock(t)
    \/ lock_registry(t)
    \/ ph_initialize_locked(t)
    \/ ph_cleanup_locked(t)
    \/ ph_install_hook_locked(t)
    \/ ph_remove_hook_locked(t)
    \/ ph_get_original_locked(t)
    \/ ph_is_hooked_locked(t)
    \/ ph_get_active_hook_count_locked(t)
    \/ ph_get_active_hooks_locked(t)

NextLock == \E t \in Threads : CallStep(t) \/ ThreadStep(t)

\* the scheduler lets every thread that can take a step run in the end, and a
\* thread blocked in pthread_mutex_lock obtains the mutex once it stays free
SpecLock ==
    InitLock /\ [][NextLock]_vars /\ \A t \in Threads : WF_vars(ThreadStep(t))

(***************************************************************************)
(* Claims                                                                  *)
(***************************************************************************)
\* this step is a call of ph_remove_hook with the handle in slot h
RemoveCalled(h) == ret'.op = "remove" /\ ret'.h = h /\ h # 0

\* this step is a call of ph_install_hook that reached its critical section
InstallCalled == ret'.op = "install" /\ ret'.name # NullName

\* what ph_get_original(&handle[h]) returns in the current state
ph_get_original_value(h) ==
    IF ~handle[h].is_valid THEN 0
    ELSE get_original_result(g_hook_list_head, handle[h])

\* C1: in every reachable state the list holds at most one entry per stored
\* function_name, whatever the length of the names installed.
C1_OneEntryPerStoredName ==
    \A i, j \in 1..Len(g_hook_list_head) :
        i # j => g_hook_list_head[i].function_name # g_hook_list_head[j].function_name

\* C2: for every handle a successful install returned, is_valid is true if and
\* only if the list holds an entry whose name equals the handle's name.
C2_ValidIffActiveEntry ==
    \A h \in Slots :
        handle[h].id # 0 =>
            (handle[h].is_valid <=>
                is_hooked_result(g_hook_list_head, handle[h].function_name))

\* C3: when all racing installs of one resolvable name have returned (and none
\* hit an allocation failure), exactly one returned Success, every other one
\* AlreadyHooked, and the list holds exactly one entry for the name, with the
\* replacement of the successful caller.
C3_RaceExactlyOneSuccess ==
    ((\A t \in Threads : race[t].code # 1)
     /\ (\A t \in Threads : race[t].code # PH_ERROR_MEMORY_ERROR))
    => \E w \in Threads :
          /\ race[w].code = PH_SUCCESS
          /\ \A u \in Threads \ {w} : race[u].code = PH_ERROR_ALREADY_HOOKED
          /\ Len(g_hook_list_head) = 1
          /\ g_hook_list_head[1].function_name = strncpy(race[w].name, FieldSize)
          /\ g_hook_list_head[1].replacement_function = race[w].repl

\* C4: an install of a name whose earlier successful install still has its
\* entry in the list returns AlreadyHooked and leaves the list (entries,
\* addresses, count) and the id counter as they were.
C4_SecondInstallRejected ==
    [][(/\ InstallCalled
        /\ g_hook_system_initialized
        /\ \E i \in 1..Len(h_req) : h_req[i] = ret'.name)
       => /\ ret'.val = PH_ERROR_ALREADY_HOOKED
          /\ g_hook_list_head' = g_hook_list_head
          /\ g_next_hook_id' = g_next_hook_id]_vars

\* C5: a remove that directly follows a successful remove of the same handle
\* returns NotHooked and leaves the registry unchanged.
C5_SecondRemoveNotHooked ==
    [][(/\ ret.op = "remove"
        /\ ret.val = PH_SUCCESS
        /\ ret'.op = "remove"
        /\ ret'.h = ret.h)
       => /\ ret'.val = PH_ERROR_NOT_HOOKED
          /\ registry' = registry]_vars

\* C6: once a remove has succeeded on a handle, every later remove of that
\* handle on an initialized registry returns NotHooked and removes nothing,
\* and get_original of that handle returns null.
C6_ConsumedHandleStaysInvalid ==
    [][\A h \in Slots :
          /\ (RemoveCalled(h) /\ h_consumed[h] /\ g_hook_system_initialized)
             => (ret'.val = PH_ERROR_NOT_HOOKED
                 /\ g_hook_list_head' = g_hook_list_head)
          /\ h_consumed'[h] => ph_get_original_value(h)' = 0]_vars

\* C7: after every step, is_hooked(name) is true for every name whose
\* successful install has not been followed by a successful remove of its
\* entry, and only a successful remove for a name makes is_hooked(name)
\* false.
C7_HookedUntilRemoved ==
    [][/\ \A i \in 1..Len(h_req') : is_hooked_result(g_hook_list_head', h_req'[i])
       /\ \A n \in NameUniverse :
            (is_hooked_result(g_hook_list_head, n)
             /\ ~is_hooked_result(g_hook_list_head', n))
            => \E h \in Slots :
                  /\ RemoveCalled(h)
                  /\ ret'.val = PH_SUCCESS
                  /\ handle[h].function_name = strncpy(n, FieldSize)]_vars

\* C8: an install that returns FunctionNotFound or MemoryError leaves the
\* list, the id counter and the initialized flag as they were, and
\* is_hooked(name) is false after it.
C8_FailedInstallRegistersNothing ==
    [][(InstallCalled
        /\ ret'.val \in {PH_ERROR_FUNCTION_NOT_FOUND, PH_ERROR_MEMORY_ERROR})
       => /\ registry' = registry
          /\ ~is_hooked_result(g_hook_list_head', ret'.name)]_vars

\* an install has just failed on allocation while the list holds an entry
\* and the id counter has advanced
C8_Witness ==
    /\ ret.op = "install"
    /\ ret.val = PH_ERROR_MEMORY_ERROR
    /\ Len(g_hook_list_head) >= 1
    /\ g_next_hook_id > 1

\* C9: active_count() equals the number of distinct names for which
\* is_hooked returns true.
C9_CountEqualsHookedNames ==
    active_count_result(g_hook_list_head)
        = Cardinality({n \in NameUniverse : is_hooked_result(g_hook_list_head, n)})

\* this step is a successful install
InstallSucceeds == InstallCalled /\ ret'.val = PH_SUCCESS

\* C10 as stated: no successful install returns an id that any earlier
\* successful install of the process returned, and the counter never
\* decreases.
C10_IdsNeverReused ==
    [][/\ InstallSucceeds => handle'[ret'.h].id \notin h_issued_ever
       /\ g_next_hook_id' >= g_next_hook_id]_vars

\* C10 amended: no successful install returns an id that an earlier successful
\* install returned since the counter was last reset, and the counter only
\* decreases when ph_initialize on an uninitialized registry resets it to 1.
C10_IdsUniqueUntilReset ==
    [][/\ InstallSucceeds => handle'[ret'.h].id \notin h_issued
       /\ \/ g_next_hook_id' >= g_next_hook_id
          \/ (~g_hook_system_initialized /\ g_hook_system_initialized'
              /\ g_next_hook_id' = 1)]_vars

\* two installs have succeeded since the counter was last reset, and both
\* handles are held
C10_Witness ==
    /\ g_hook_system_initialized
    /\ Cardinality(h_issued) >= 2
    /\ \A h \in Slots : handle[h].id \in h_issued
    /\ \A g, h \in Slots : g # h => handle[g].id # handle[h].id

\* C11: cleanup leaves an empty, uninitialized registry (active_count 0,
\* is_hooked false for every name); cleanup of an uninitialized registry
\* changes nothing; the initialize that follows resets the id counter, and the
\* first successful install after it returns id 1.
C11_CleanupResets ==
    [][/\ ret'.op = "cleanup" =>
            /\ ~g_hook_system_initialized'
            /\ g_hook_list_head' = <<>>
            /\ active_count_result(g_hook_list_head') = 0
            /\ \A n \in NameUniverse : ~is_hooked_result(g_hook_list_head', n)
            /\ ~g_hook_system_initialized =>
                  UNCHANGED <<registry, handle, g_config_data>>
       /\ (ret'.op = "initialize" /\ ~g_hook_system_initialized
              /\ g_hook_system_initialized') => g_next_hook_id' = 1
       /\ (InstallSucceeds /\ h_issued = {}) => handle'[ret'.h].id = 1]_vars

\* an install has just returned id 1 although an earlier install of the
\* process returned id 2: a cleanup and an initialize lie in between
C11_Witness ==
    /\ ret.op = "install"
    /\ ret.val = PH_SUCCESS
    /\ handle[ret.h].id = 1
    /\ h_issued = {1}
    /\ 2 \in h_issued_ever

\* C12: initialize on an initialized registry returns Success and leaves the
\* list, the id counter and the configuration store unchanged; on an
\* uninitialized registry on an unsupported platform it returns
\* UnsupportedPlatform and the registry stays uninitialized.
C12_InitializeIdempotent ==
    [][ret'.op = "initialize" =>
          /\ g_hook_system_initialized =>
                /\ ret'.val = PH_SUCCESS
                /\ UNCHANGED <<registry, g_config_data>>
          /\ (~g_hook_system_initialized /\ ~platform_supported) =>
                /\ ret'.val = PH_ERROR_UNSUPPORTED_PLATFORM
                /\ ~g_hook_system_initialized'
                /\ UNCHANGED <<registry, g_config_data>>]_vars

\* initialize has just returned on a registry that holds an entry and whose
\* counter has advanced: it was called on an initialized registry
C12_Witness ==
    /\ ret.op = "initialize"
    /\ ret.val = PH_SUCCESS
    /\ g_hook_system_initialized
    /\ Len(g_hook_list_head) >= 1
    /\ g_next_hook_id > 1

\* C13: an uninitialized registry holds no entry, and every install and
\* every remove called on it returns InvalidParameter and leaves the list,
\* the counter and the handles as they were.
C13_UninitializedRejects ==
    [][/\ ~g_hook_system_initialized => g_hook_list_head = <<>>
       /\ ~g_hook_system_initialized' => g_hook_list_head' = <<>>
       /\ (~g_hook_system_initialized /\ ret'.op \in {"install", "remove"}) =>
             /\ ret'.val = PH_ERROR_INVALID_PARAM
             /\ UNCHANGED <<registry, handle>>]_vars

\* a remove with a valid handle has just been rejected on a registry that a
\* cleanup left uninitialized
C13_Witness ==
    /\ ~g_hook_system_initialized
    /\ ret.op = "remove"
    /\ ret.val = PH_ERROR_INVALID_PARAM
    /\ ret.h # 0
    /\ handle[ret.h].is_valid

\* C14: when all concurrent installs of pairwise distinct resolvable names
\* have returned (and none hit an allocation failure), all returned Success,
\* their handles carry pairwise distinct ids, active_count() is the number of
\* threads, and get_original of each thread's handle is the address the
\* resolver gives for the name that thread installed.
C14_DistinctInstallsAllSucceed ==
    ((\A t \in Threads : race[t].code # 1)
     /\ (\A t \in Threads : race[t].code # PH_ERROR_MEMORY_ERROR))
    => /\ \A t \in Threads : race[t].code = PH_SUCCESS
       /\ \A t, u \in Threads :
             t # u => handle[call[t].h].id # handle[call[u].h].id
       /\ active_count_result(g_hook_list_head) = NumThreads
       /\ \A t \in Threads :
             ph_get_original_value(call[t].h) = dlsym(race[t].name)

\* C15: a call that returns InvalidParameter has mutated nothing: the step on
\* which it returns leaves the list, the counter, the flag, the handles and
\* the configuration store as they were, and no earlier step of the call has
\* changed the configuration store.
C15_InvalidParamMutatesNothing ==
    [][\A t \in Threads :
          (pc[t] # "idle" /\ pc'[t] = "idle"
             /\ race'[t].code = PH_ERROR_INVALID_PARAM)
          => /\ UNCHANGED <<registry, handle, g_config_data>>
             /\ ~local'[t].wrote]_vars

\* the values of the four fields that only ph_install_uname_hook writes come
\* from one configuration
FromOneConfig(sysname, machine, release, version) ==
    \E k \in {ZeroConfig} \cup {Configs[c] : c \in 1..Len(Configs)} :
        /\ sysname = k.system_name
        /\ machine = k.machine
        /\ release = k.release
        /\ version = k.version

\* C17: every step that changes the configuration store is taken by the
\* thread that holds the mutex; whenever the mutex is free the store holds
\* no partially written configuration, and what hooked_uname returns is no
\* mix of two configurations.
C17_ConfigWrittenUnderMutex ==
    [][/\ g_config_data' # g_config_data =>
            (g_hook_mutex # 0 /\ pc'[g_hook_mutex] # pc[g_hook_mutex])
       /\ g_hook_mutex' = 0 =>
            FromOneConfig(g_config_data'.system_name, g_config_data'.machine,
                          g_config_data'.release, g_config_data'.version)
       /\ \A t \in Threads :
            (pc'[t] = "idle" /\ race'[t].name = UName /\ race'[t].code = 0)
            => FromOneConfig(local'[t].buf.sysname, local'[t].buf.machine,
                             local'[t].buf.release, local'[t].buf.version)]_vars

\* ph_install_hook, called with non-null arguments, reaches its call of dlsym
dlsym_consulted(inited, list, name) ==
    inited /\ ph_find_hook_by_name(list, name) = 0

\* C16: on an initialized registry an install with an empty name or a null
\* argument (ret.name is NullName: the call returned at its argument check)
\* returns InvalidParameter, leaves the registry and the handles unchanged and,
\* for the empty name, does not reach the resolver.
C16_MalformedArgumentsRejected ==
    [][(/\ ret'.op = "install"
        /\ g_hook_system_initialized
        /\ ret'.name \in {EmptyName, NullName})
       => /\ ret'.val = PH_ERROR_INVALID_PARAM
          /\ UNCHANGED <<registry, handle>>
          /\ ret'.name = EmptyName =>
                ~dlsym_consulted(g_hook_system_initialized, g_hook_list_head,
                                 EmptyName)]_vars

\* C18: a call of the hostname handler with capacity C for a configured
\* hostname of length L returns -1 and leaves the buffer untouched if C <= L;
\* if C > L it returns 0, the buffer holds the hostname followed by a
\* terminator, and no byte at index C or above is written.
C18_HostnameFitsOrFails ==
    \A t \in Threads :
        pc[t] = "idle" =>
            LET hostname == g_config_data.hostname
                L == Len(hostname)
                C == local[t].len
                name == local[t].name
            IN IF C <= L
               THEN race[t].code = -1 /\ name = FreshBuffer
               ELSE /\ race[t].code = 0
                    /\ \A i \in 1..L : name[i] = SubSeq(hostname, i, i)
                    /\ name[L + 1] = NUL
                    /\ \A i \in DOMAIN name : i > C => name[i] = Untouched

\* "abc" is configured; the call with capacity 4 has returned 0 and the call
\* with capacity 3 has returned -1
C18_Witness ==
    /\ g_config_data.hostname = "abc"
    /\ \A t \in Threads : pc[t] = "idle"
    /\ \E t \in Threads :
          /\ local[t].len = 4
          /\ race[t].code = 0
          /\ SubSeq(local[t].name, 1, 4) = <<"a", "b", "c", NUL>>
    /\ \E t \in Threads : local[t].len = 3 /\ race[t].code = -1

\* the names of the active entries, in registry order
ActiveNames(list) ==
    LET act == {i \in 1..Len(list) : list[i].is_active}
        F[k \in 0..Len(list)] ==
            IF k = 0 THEN <<>>
            ELSE IF k \in act THEN Append(F[k - 1], list[k].function_name)
                 ELSE F[k - 1]
    IN F[Len(list)]

\* C19: for every capacity, list_active_names writes the first count active
\* names in registry order, each with its terminator, one behind the other
\* and within the capacity; count is at most active_count(); it stops before
\* a name only if that name with its terminator is longer than the remaining
\* capacity; a null buffer or capacity 0 gives 0.
C19_ListWritesEveryNameThatFits ==
    \A buffer_size \in BufferSizes :
        LET r == get_active_hooks_result(g_hook_list_head, TRUE, buffer_size)
            all == ActiveNames(g_hook_list_head)
        IN /\ r.names = SubSeq(all, 1, r.count)
           /\ r.count <= active_count_result(g_hook_list_head)
           /\ r.offset <= buffer_size
           /\ r.count < Len(all) =>
                 Len(all[r.count + 1]) + 1 > buffer_size - r.offset
           /\ buffer_size = 0 => r.count = 0
           /\ get_active_hooks_result(g_hook_list_head, FALSE,
                                      buffer_size).count = 0

\* C20: every entry keeps, from its install to its removal, the address the
\* resolver gave for the name it was installed under; get_original(h) returns
\* that address of the entry for h's function name, and null when h is null
\* or not valid, when there is no such entry or when the registry is
\* uninitialized; a call of get_original changes no state.
C20_GetOriginalReturnsStoredAddress ==
    [][/\ \A i \in 1..Len(g_hook_list_head') :
            g_hook_list_head'[i].original_function = dlsym(h_req'[i])
       /\ \A h \in Slots :
            LET i == ph_find_hook_by_name(g_hook_list_head',
                                          handle'[h].function_name)
            IN ph_get_original_value(h)' =
                  IF ~handle'[h].is_valid \/ i = 0 \/ ~g_hook_system_initialized'
                  THEN 0
                  ELSE dlsym(h_req'[i])
       /\ ret'.op = "get_original" =>
            /\ ret'.val \in {0} \cup {ph_get_original_value(h) : h \in Slots}
            /\ UNCHANGED <<platform_supported, g_config_data, registry, handle,
                           threads, history>>]_vars

\* get_original has just returned an address while the list holds two
\* entries with different original addresses
C20_Witness ==
    /\ ret.op = "get_original"
    /\ ret.val # 0
    /\ Len(g_hook_list_head) = 2
    /\ g_hook_list_head[1].original_function
          # g_hook_list_head[2].original_function


\* thread t is inside an operation: it has passed the argument check and has
\* not returned
InCall(t) == pc[t] \notin {"start", "idle"}

\* thread t is blocked in, or about to call, pthread_mutex_lock
AtLock(t) ==
    pc[t] \in {"wait", "uid_lock", "gid_lock"} \cup {Waiting(op) : op \in LockOps}

\* thread t is between a pthread_mutex_lock and the unlock that follows it
InCriticalSection(t) ==
    pc[t] \in {"locked", "uid_set", "gid_set"} \cup {Locked(op) : op \in LockOps}

\* C21: lock discipline and termination.  In the lock scenario the mutex is
\* held only by a thread inside a critical section, so every return path has
\* released it and the mutex is free whenever no thread is inside an
\* operation; no thread calls pthread_mutex_lock while it holds the mutex;
\* and under fair scheduling every call a thread is in returns in the end,
\* so no interleaving deadlocks.
C21_LockReleasedAndCallsReturn ==
    /\ [](\A t \in Threads : g_hook_mutex = t => InCriticalSection(t))
    /\ []((\A t \in Threads : ~InCall(t)) => g_hook_mutex = 0)
    /\ [](\A t \in Threads : AtLock(t) => g_hook_mutex # t)
    /\ \A t \in Threads : InCall(t) ~> (pc[t] = "idle")

\* every thread has returned, one of them from the AlreadyHooked exit of
\* ph_install_hook and another from a successful call, and the mutex is free
C21_Witness ==
    /\ \A t \in Threads : pc[t] = "idle"
    /\ \E t, u \in Threads :
          /\ t # u
          /\ call[t].repl # 0
          /\ race[t].code = PH_ERROR_ALREADY_HOOKED
          /\ call[u].repl # 0
          /\ race[u].code = PH_SUCCESS
    /\ g_hook_mutex = 0


\* the positions of the entries of list whose stored name equals name
EntriesNamed(list, name) ==
    {i \in 1..Len(list) : strcmp0(list[i].function_name, name)}

\* C22: a successful remove(h) removes exactly the one entry whose function
\* name equals h's function name, at whatever position: the list it leaves is
\* the list without that entry, so every other entry keeps its name, its
\* addresses and its place in the order; active_count() is one less, and
\* the id counter and the initialized flag are unchanged.
C22_RemoveUnlinksTheOneEntry ==
    [][(/\ ret'.op = "remove"
        /\ ret'.val = PH_SUCCESS)
       => LET named == EntriesNamed(g_hook_list_head,
                                    handle[ret'.h].function_name)
          IN /\ Cardinality(named) = 1
             /\ \A i \in named : g_hook_list_head' = RemoveAt(g_hook_list_head, i)
             /\ active_count_result(g_hook_list_head')
                   = active_count_result(g_hook_list_head) - 1
             /\ g_next_hook_id' = g_next_hook_id
             /\ g_hook_system_initialized' = g_hook_system_initialized]_vars

====
